---------------------------- MODULE Spec2Model ----------------------------
(***************************************************************************)
(* GoShield ride-safety service: the assessment and evidence pipeline.     *)
(*                                                                         *)
(* Numbers: scores are floats in the source.  Threat, location and driver  *)
(* scores are modelled as integers, and an overall score is kept in        *)
(* hundredths (overall_score = 60*t + 25*l + 15*d), so that the weights    *)
(* 0.6 / 0.25 / 0.15 are exact.  Strings that the code measures (strip,    *)
(* len) are sequences of one-character strings.  Python's None is Null.    *)
(***************************************************************************)
EXTENDS Integers, Sequences, FiniteSets, TLC

VARIABLES
    settings,     \* app.config.settings: the two risk thresholds read at import
    last_risk,    \* last RiskAssessmentService.calculate_overall_risk call
    last_threat,  \* last QwenService.assess_threat_level call
    last_kit,     \* last QwenService.create_evidence_kit call
    last_asr,     \* last AlibabaSpeechService.transcribe_audio call
    req,          \* the request in flight in app/main.py and all that is scoped to it
    db,           \* the committed rows of the location_risks and drivers tables
    sessions      \* the database sessions of the requests in flight, one per request

vars == <<settings, last_risk, last_threat, last_kit, last_asr, req, db, sessions>>

\* No call of the operation has been made yet.
NoCall == [called |-> FALSE]

(***************************************************************************)
(* Python values                                                           *)
(***************************************************************************)
\* None, where a str is expected
Null == <<"<None>">>

\* bool(x) of a str or None: None and "" are falsy
Truthy(x) == x # Null /\ x # <<>>

Whitespace == {" "}

RECURSIVE lstrip(_)
lstrip(s) ==
    IF s = <<>> THEN <<>>
    ELSE IF Head(s) \in Whitespace THEN lstrip(Tail(s))
    ELSE s

RECURSIVE rstrip(_)
rstrip(s) ==
    IF s = <<>> THEN <<>>
    ELSE IF s[Len(s)] \in Whitespace THEN rstrip(SubSeq(s, 1, Len(s) - 1))
    ELSE s

\* Mutant of strip: only the leading whitespace is removed.
strip_LeadingOnly(s) == lstrip(s)

\* str.strip(): leading and trailing whitespace removed, interior kept
strip(s) == rstrip(lstrip(s))

\* a string of n copies of one character
Repeat(c, n) == [i \in 1..n |-> c]

\* a float: a number, or NaN (json.loads accepts the literal NaN)
Num(n) == [nan |-> FALSE, v |-> n]
NaN == [nan |-> TRUE, v |-> 0]

\* a < b on floats: every comparison with NaN is false
PyLt(a, b) == ~a.nan /\ ~b.nan /\ a.v < b.v

\* min(a, b) and max(a, b) of Python: the first argument unless the second
\* is strictly smaller (larger)
PyMin(a, b) == IF PyLt(b, a) THEN b ELSE a
PyMax(a, b) == IF PyLt(a, b) THEN b ELSE a

\* JSON values as json.loads returns them
JNull == [t |-> "null"]
\* (a member per type: values of different types are never compared)
JStr(s) == [t |-> "str", str |-> s]
JNum(x) == [t |-> "num", num |-> x]
JBool(b) == [t |-> "bool", bool |-> b]
JList(l) == [t |-> "list", list |-> l]
JObj(o) == [t |-> "obj", obj |-> o]
\* a str whose characters the code measures
JText(s) == [t |-> "str", chars |-> s]

\* dict.get(key, default)
DictGet(d, key, default) == IF key \in DOMAIN d THEN d[key] ELSE default

\* an exception raised inside a try block
Raised == [exc |-> TRUE]
Value(x) == [exc |-> FALSE, value |-> x]

(***************************************************************************)
(* app/config.py                                                           *)
(***************************************************************************)
LOW_RISK_THRESHOLD == 39
MEDIUM_RISK_THRESHOLD == 69

DefaultSettings == [low |-> LOW_RISK_THRESHOLD, medium |-> MEDIUM_RISK_THRESHOLD]

\* Settings reads both thresholds from the environment with int(os.getenv(..)),
\* and nothing relates the two: any pair of integers can be configured.
Settings ==
    { DefaultSettings,
      [low |-> 20, medium |-> 60],
      [low |-> 50, medium |-> 50],
      [low |-> 69, medium |-> 39] }

(***************************************************************************)
(* app/services/risk_assessment.py                                         *)
(***************************************************************************)
RiskLevels == {"Low", "Medium", "High"}

WEIGHT_THREAT == 60
WEIGHT_LOCATION == 25
WEIGHT_DRIVER == 15

\* Mutant of WeightedScore: the driver history is subtracted.
WeightedScore_DriverSubtracted(threat, location, driver) ==
    threat * WEIGHT_THREAT + location * WEIGHT_LOCATION - driver * WEIGHT_DRIVER

\* Mutant of WeightedScore: location and driver history swap their weights.
WeightedScore_SwappedWeights(threat, location, driver) ==
    threat * WEIGHT_THREAT + location * WEIGHT_DRIVER + driver * WEIGHT_LOCATION

\* overall_score in hundredths
WeightedScore(threat, location, driver) ==
    threat * WEIGHT_THREAT + location * WEIGHT_LOCATION + driver * WEIGHT_DRIVER

\* Mutant of RiskLevelOf: strict comparisons at the thresholds.
RiskLevelOf_Strict(overall, cfg) ==
    IF overall < cfg.low * 100 THEN "Low"
    ELSE IF overall < cfg.medium * 100 THEN "Medium"
    ELSE "High"

\* if / elif / else over the two configured thresholds; overall in hundredths
RiskLevelOf(overall, cfg) ==
    IF overall <= cfg.low * 100 THEN "Low"
    ELSE IF overall <= cfg.medium * 100 THEN "Medium"
    ELSE "High"

calculate_overall_risk(threat, location, driver, cfg) ==
    LET overall == WeightedScore(threat, location, driver)
    IN  [overall_score |-> overall, risk_level |-> RiskLevelOf(overall, cfg)]

\* The threat score reaching the aggregator has been clamped to [0, SCORE_MAX].
SCORE_MIN == 0
SCORE_MAX == 100

ThreatInputs == SCORE_MIN..SCORE_MAX
\* location and driver signals: the values the placeholder providers return
\* (10, 25, 40 and 0, 5, 10, 25) and other floats of the documented [0, 40].
LocationInputs == {0, 10, 15, 25, 36, 40}
DriverInputs == {0, 5, 10, 25, 40}

CalculateOverallRisk ==
    /\ ~last_risk.called
    /\ \E t \in ThreatInputs, l \in LocationInputs, d \in DriverInputs :
        /\ last_risk' = [called |-> TRUE, threat |-> t, location |-> l, driver |-> d,
                         result |-> calculate_overall_risk(t, l, d, settings)]
        /\ UNCHANGED <<settings, last_threat, last_kit, last_asr, req, db, sessions>>

(***************************************************************************)
(* app/services/qwen_service.py: assess_threat_level                       *)
(***************************************************************************)
\* Longest transcript whose every character is enumerated.
MaxLen == 5
\* How far beyond [0, 100] the number sent by the language model may lie.
MaxExcess == 3

Alphabet == {"a", " "}

\* every string over the alphabet up to the bound
Texts == UNION { [1..n -> Alphabet] : n \in 0..MaxLen }

MIN_TEXT_LENGTH == 5

\* What the language model does with one chat.completions.create call:
\* the call raises; the content is not JSON; the JSON is not an object; or it
\* is an object, here with its threat_score member missing, null, a string
\* that is no number, NaN, or a number inside or outside [0, 100].
ThreatScoreMembers ==
    {JNull, JStr("high"), JNum(NaN)}
        \cup { JNum(Num(n)) : n \in (SCORE_MIN - MaxExcess)..(SCORE_MAX + MaxExcess) }

ThreatPayloads ==
    { [kind |-> "call_error"], [kind |-> "bad_json"], [kind |-> "not_object"],
      [kind |-> "object", members |-> <<>>] }
        \cup { [kind |-> "object", members |-> [threat_score |-> m]] :
                 m \in ThreatScoreMembers }

\* float(x) of a JSON value: None and a non-numeric str raise
PyFloat(j) == IF j.t = "num" THEN Value(j.num) ELSE Raised

\* Mutant of ClampScore: only the lower bound is enforced.
ClampScore_NoUpper(x) == PyMax(Num(SCORE_MIN), x)

\* max(0, min(100, threat_score))
ClampScore(x) == PyMax(Num(SCORE_MIN), PyMin(Num(SCORE_MAX), x))

\* The body of the try block: the call, json.loads, result.get, float, clamp.
ThreatTryBlock(up) ==
    IF up.kind # "object" THEN Raised
    ELSE LET f == PyFloat(DictGet(up.members, "threat_score", JNum(Num(0))))
         IN  IF f.exc THEN Raised ELSE Value(ClampScore(f.value))

\* Mutant of ShortCircuit: the characters are counted without whitespace
\* being trimmed first.
ShortCircuit_NoStrip(text) == ~Truthy(text) \/ Len(text) < MIN_TEXT_LENGTH

\* Mutant of ShortCircuit: only the non-whitespace characters are counted.
ShortCircuit_NonWhitespace(text) ==
    ~Truthy(text) \/ Cardinality({ i \in 1..Len(text) : text[i] \notin Whitespace })
                        < MIN_TEXT_LENGTH

\* not transcribed_text or len(transcribed_text.strip()) < 5
ShortCircuit(text) == ~Truthy(text) \/ Len(strip(text)) < MIN_TEXT_LENGTH

\* Mutant of assess_threat_level: no except clause around the call.
assess_threat_level_NoExcept(text, up) ==
    IF ShortCircuit(text)
    THEN [raised |-> FALSE, score |-> Num(0), upstream_calls |-> 0]
    ELSE LET r == ThreatTryBlock(up)
         IN  IF r.exc
             THEN [raised |-> TRUE, score |-> Num(0), upstream_calls |-> 1]
             ELSE [raised |-> FALSE, score |-> r.value, upstream_calls |-> 1]

\* raised: an exception leaves the method; upstream_calls: the number of
\* chat.completions.create calls made
assess_threat_level(text, up) ==
    IF ShortCircuit(text)
    THEN [raised |-> FALSE, score |-> Num(0), upstream_calls |-> 0]
    ELSE LET r == ThreatTryBlock(up)
         IN  IF r.exc
             THEN [raised |-> FALSE, score |-> Num(0), upstream_calls |-> 1]
             ELSE [raised |-> FALSE, score |-> r.value, upstream_calls |-> 1]

AssessThreatLevel ==
    /\ ~last_threat.called
    /\ \E text \in Texts \cup {Null}, up \in ThreatPayloads :
        /\ last_threat' = [called |-> TRUE, text |-> text, upstream |-> up,
                           result |-> assess_threat_level(text, up)]
        /\ UNCHANGED <<settings, last_risk, last_kit, last_asr, req, db, sessions>>

(***************************************************************************)
(* app/services/qwen_service.py: create_evidence_kit                       *)
(***************************************************************************)
NO_CLEAR_SPEECH ==
    <<"[", "N", "o", " ", "c", "l", "e", "a", "r", " ", "s", "p", "e", "e", "c",
      "h", " ", "d", "e", "t", "e", "c", "t", "e", "d", " ", "i", "n", " ", "a",
      "u", "d", "i", "o", "]">>

SPEECH_DETECTED_LENGTH == 10
GOOD_QUALITY_LENGTH == 50
\* confidence_level 0.8, in hundredths
DEFAULT_CONFIDENCE == 80

DEFAULT_SUMMARY == JStr("No significant safety concerns detected.")

DEFAULT_CLASSIFICATION ==
    JObj([primary_category |-> JStr("normal_ride"),
          secondary_categories |-> JList(<<>>),
          severity_level |-> JStr("low"),
          urgency |-> JStr("low"),
          requires_immediate_action |-> JBool(FALSE)])

\* the members of the analysis that the kit reads, each with the default it
\* passes to analysis_result.get
AnalysisDefaults ==
    [executive_summary |-> DEFAULT_SUMMARY,
     incident_classification |-> DEFAULT_CLASSIFICATION,
     threat_indicators |-> JList(<<>>),
     detailed_analysis |-> JObj(<<>>),
     recommended_actions |-> JList(<<JStr("No specific actions required")>>),
     follow_up_required |-> JBool(FALSE),
     confidence_level |-> JNum(Num(DEFAULT_CONFIDENCE))]

AnalysisMembers == DOMAIN AnalysisDefaults

ClassificationMembers ==
    {"primary_category", "secondary_categories", "severity_level", "urgency",
     "requires_immediate_action"}

\* what the language model sends for a classification member it does send
UpstreamClassification ==
    [primary_category |-> JStr("harassment"),
     secondary_categories |-> JList(<<JStr("verbal_abuse")>>),
     severity_level |-> JStr("high"),
     urgency |-> JStr("immediate"),
     requires_immediate_action |-> JBool(TRUE)]

\* the incident_classification objects the language model may send: complete,
\* one member short, only the primary category, or empty
ClassificationDomains ==
    {ClassificationMembers, {"primary_category"}, {}}
        \cup { ClassificationMembers \ {m} : m \in ClassificationMembers }

UpstreamClassifications ==
    { JObj([m \in dom |-> UpstreamClassification[m]]) : dom \in ClassificationDomains }

\* what the language model sends for a member it does send (other than null)
UpstreamValues(member) ==
    CASE member = "executive_summary" -> {JStr("Driver threatened the passenger.")}
      [] member = "incident_classification" -> UpstreamClassifications
      [] member = "threat_indicators" ->
            {JList(<<JObj([type |-> JStr("verbal_threat"), severity |-> JStr("high")])>>)}
      [] member = "detailed_analysis" ->
            {JObj([conversation_tone |-> JStr("hostile")])}
      [] member = "recommended_actions" -> {JList(<<JStr("Contact the passenger")>>)}
      [] member = "follow_up_required" -> {JBool(TRUE)}
      [] member = "confidence_level" -> {JNum(Num(95))}

MemberOrder ==
    <<"executive_summary", "incident_classification", "threat_indicators",
      "detailed_analysis", "recommended_actions", "follow_up_required",
      "confidence_level">>

\* every JSON object over the first n members: each one missing, null or sent
RECURSIVE ObjectsOver(_)
ObjectsOver(n) ==
    IF n = 0 THEN {<<>>}
    ELSE LET m == MemberOrder[n]
             rest == ObjectsOver(n - 1)
         IN  rest \cup { (m :> v) @@ f : f \in rest, v \in UpstreamValues(m) \cup {JNull} }

\* What the classification call does: it raises, its content is not JSON, the
\* JSON is not an object, or it is an object.
AnalysisPayloads ==
    { [kind |-> "call_error"], [kind |-> "bad_json"], [kind |-> "not_object"] }
        \cup { [kind |-> "object", members |-> f] : f \in ObjectsOver(Len(MemberOrder)) }

\* Mutant of AnalysisGet: dict.get without the default argument.
AnalysisGet_NoDefault(members, member) == DictGet(members, member, JNull)

\* analysis_result.get(member, <default>)
AnalysisGet(members, member) == DictGet(members, member, AnalysisDefaults[member])

\* ride_context = None
NoContext == [none |-> TRUE]

\* lines 70-71: a missing or short transcript is replaced by the placeholder
KitTranscript(transcript) ==
    IF ~Truthy(transcript) \/ Len(strip(transcript)) < MIN_TEXT_LENGTH
    THEN NO_CLEAR_SPEECH
    ELSE transcript

\* the evidence_details member, the same in the kit and in the fallback kit
\* but for the threat indicators
EvidenceDetails(transcript, audio_duration, risk_assessment, indicators) ==
    JObj([full_transcript |-> JText(transcript),
          audio_duration_seconds |-> JNum(Num(audio_duration)),
          processing_timestamp |-> JStr("datetime.now"),
          threat_indicators |-> indicators,
          risk_assessment |-> JObj(risk_assessment)])

\* lines 135-165: the kit built from a parsed analysis object
CompleteKit(transcript, audio_duration, risk_assessment, ride_context, members) ==
    [evidence_kit_id |-> JStr("uuid4"),
     processing_timestamp |-> JStr("datetime.now"),
     ride_details |-> JObj(IF ride_context = NoContext THEN <<>> ELSE ride_context),
     audio_analysis |->
        JObj([duration_seconds |-> JNum(Num(audio_duration)),
              transcript_length |-> JNum(Num(Len(transcript))),
              speech_detected |-> JBool(Len(strip(transcript)) > SPEECH_DETECTED_LENGTH),
              processing_quality |->
                 JStr(IF Len(transcript) > GOOD_QUALITY_LENGTH THEN "good" ELSE "limited")]),
     executive_summary |-> AnalysisGet(members, "executive_summary"),
     incident_classification |-> AnalysisGet(members, "incident_classification"),
     evidence_details |->
        EvidenceDetails(transcript, audio_duration, risk_assessment,
                        AnalysisGet(members, "threat_indicators")),
     detailed_analysis |-> AnalysisGet(members, "detailed_analysis"),
     recommended_actions |-> AnalysisGet(members, "recommended_actions"),
     follow_up_required |-> AnalysisGet(members, "follow_up_required"),
     overall_risk_score |-> DictGet(risk_assessment, "overall_score", JNum(Num(0))),
     confidence_level |-> AnalysisGet(members, "confidence_level")]

\* lines 172-184: the kit returned by the except clause
FallbackKit(transcript, audio_duration, risk_assessment) ==
    [evidence_kit_id |-> JStr("uuid4"),
     processing_timestamp |-> JStr("datetime.now"),
     executive_summary |-> JStr("Error occurred during analysis processing"),
     evidence_details |->
        EvidenceDetails(transcript, audio_duration, risk_assessment, JList(<<>>)),
     error |-> JStr("str(e)")]

\* QwenService.create_evidence_kit: the call, json.loads and every
\* analysis_result.get sit in one try block whose except clause returns the
\* fallback kit
QwenService_create_evidence_kit(transcript, duration, risk, context, up) ==
    LET text == KitTranscript(transcript)
    IN  IF up.kind = "object"
        THEN CompleteKit(text, duration, risk, context, up.members)
        ELSE FallbackKit(text, duration, risk)

\* main.py lines 175-180: the risk_assessment context built from a threat score
RiskAssessmentContext(threat_score) ==
    [threat_text_score |-> JNum(threat_score),
     overall_score |-> JNum(threat_score),
     assessment_type |-> JStr("full_audio_analysis"),
     processing_method |-> JStr("comprehensive_review")]

\* transcripts given to the assembly: missing, empty, short, just long enough
\* to be kept, and transcripts at and just over the two lengths the audio
\* summary is derived from, one of them padded with whitespace
KitTranscripts ==
    {Null, <<>>, Repeat("a", MIN_TEXT_LENGTH - 1), Repeat("a", MIN_TEXT_LENGTH),
     Repeat("a", SPEECH_DETECTED_LENGTH), Repeat("a", SPEECH_DETECTED_LENGTH + 1),
     <<" ">> \o Repeat("a", SPEECH_DETECTED_LENGTH) \o <<" ">>,
     Repeat("a", GOOD_QUALITY_LENGTH), Repeat("a", GOOD_QUALITY_LENGTH + 1)}

KitRideContexts == {NoContext, [ride_id |-> JStr("ride-1"), driver_id |-> JNull]}

CreateEvidenceKit ==
    /\ ~last_kit.called
    /\ \E transcript \in KitTranscripts, up \in AnalysisPayloads,
          ride_context \in KitRideContexts :
        /\ last_kit' =
              [called |-> TRUE, transcript |-> transcript, upstream |-> up,
               ride_context |-> ride_context,
               result |-> QwenService_create_evidence_kit(
                              transcript, 10, RiskAssessmentContext(Num(72)),
                              ride_context, up)]
        /\ UNCHANGED <<settings, last_risk, last_threat, last_asr, req, db, sessions>>

(***************************************************************************)
(* app/utils/audio_utils.py                                                *)
(***************************************************************************)
SUPPORTED_FORMATS == {".wav", ".mp3", ".m4a", ".aac", ".flac", ".ogg"}

TARGET_SAMPLE_RATE == 16000
TARGET_SAMPLE_WIDTH == 2
TARGET_CHANNELS == 1

\* is_supported_format: the extension, lower-cased, is in the allow-list
is_supported_format(ext) == ext \in SUPPORTED_FORMATS

\* An audio file: whether pydub can decode it at all, and what it decodes to.
\* (duration in seconds; a corrupt file has no properties to speak of)
CorruptFile ==
    [decodable |-> FALSE, frame_rate |-> 0, sample_width |-> 0, channels |-> 0,
     duration |-> 0]

AudioFiles ==
    [decodable : {TRUE},
     frame_rate : {8000, TARGET_SAMPLE_RATE, 44100},
     sample_width : {1, TARGET_SAMPLE_WIDTH},
     channels : {TARGET_CHANNELS, 2},
     duration : {10}]
        \cup {CorruptFile}

Canonical(file) ==
    /\ file.frame_rate = TARGET_SAMPLE_RATE
    /\ file.sample_width = TARGET_SAMPLE_WIDTH
    /\ file.channels = TARGET_CHANNELS

\* get_audio_info: the decoded properties, or {} when anything raises.
\* loaded: AudioSegment.from_file returned for this call.
get_audio_info(file, loaded) ==
    IF loaded
    THEN [duration_seconds |-> file.duration,
          sample_rate |-> file.frame_rate,
          channels |-> file.channels,
          sample_width |-> file.sample_width,
          bit_depth |-> file.sample_width * 8,
          alibaba_isi_compatible |->
              (/\ file.frame_rate = TARGET_SAMPLE_RATE
               /\ file.sample_width = TARGET_SAMPLE_WIDTH
               /\ file.channels = TARGET_CHANNELS)]
    ELSE <<>>

\* Mutant of needs_conversion: the checks are chained with elif, so only the
\* first mismatching property is reported.
needs_conversion_FirstMismatch(file, loaded) ==
    IF ~loaded THEN [needs_conv |-> TRUE, reason |-> <<"error_checking">>]
    ELSE LET reasons ==
                 IF file.frame_rate # TARGET_SAMPLE_RATE THEN <<"sample_rate">>
                 ELSE IF file.sample_width # TARGET_SAMPLE_WIDTH THEN <<"bit_depth">>
                 ELSE IF file.channels # TARGET_CHANNELS THEN <<"channels">>
                 ELSE <<>>
         IN  [needs_conv |-> Len(reasons) > 0,
              reason |-> IF reasons # <<>> THEN reasons ELSE <<"already_compatible">>]

\* needs_conversion: one reason per mismatching property, in the order the
\* code appends them; (True, "error_checking") when the file cannot be loaded
needs_conversion(file, loaded) ==
    IF ~loaded THEN [needs_conv |-> TRUE, reason |-> <<"error_checking">>]
    ELSE LET reasons ==
                 (IF file.frame_rate # TARGET_SAMPLE_RATE THEN <<"sample_rate">> ELSE <<>>)
                 \o (IF file.sample_width # TARGET_SAMPLE_WIDTH THEN <<"bit_depth">> ELSE <<>>)
                 \o (IF file.channels # TARGET_CHANNELS THEN <<"channels">> ELSE <<>>)
         IN  [needs_conv |-> Len(reasons) > 0,
              reason |-> IF reasons # <<>> THEN reasons ELSE <<"already_compatible">>]

\* Mutant of ConvertedAudio: the channels are left as they are.
ConvertedAudio_NoDownmix(file) ==
    LET a1 == IF file.frame_rate # TARGET_SAMPLE_RATE
              THEN [file EXCEPT !.frame_rate = TARGET_SAMPLE_RATE] ELSE file
        a2 == IF a1.sample_width # TARGET_SAMPLE_WIDTH
              THEN [a1 EXCEPT !.sample_width = TARGET_SAMPLE_WIDTH] ELSE a1
    IN  a2

\* lines 67-77: set_frame_rate, set_sample_width, set_channels, each applied
\* when the property differs from the target
ConvertedAudio(file) ==
    LET a1 == IF file.frame_rate # TARGET_SAMPLE_RATE
              THEN [file EXCEPT !.frame_rate = TARGET_SAMPLE_RATE] ELSE file
        a2 == IF a1.sample_width # TARGET_SAMPLE_WIDTH
              THEN [a1 EXCEPT !.sample_width = TARGET_SAMPLE_WIDTH] ELSE a1
        a3 == IF a2.channels # TARGET_CHANNELS
              THEN [a2 EXCEPT !.channels = TARGET_CHANNELS] ELSE a2
    IN  a3

\* convert_to_wav.  outcome "load_error": from_file raises before any file is
\* made; "export_error": mkstemp has made the file and export raises;
\* "ok": the file is written.  Any exception leaves as ValueError.
\* created: a temp file was made; path: the file returned, when one is.
convert_to_wav(file, outcome) ==
    CASE outcome = "load_error" -> [raised |-> TRUE, created |-> FALSE]
      [] outcome = "export_error" -> [raised |-> TRUE, created |-> TRUE]
      [] outcome = "ok" ->
            [raised |-> FALSE, created |-> TRUE, wav |-> ConvertedAudio(file)]

(***************************************************************************)
(* app/services/speech_service.py                                          *)
(***************************************************************************)
RECOGNITION_SUCCESS == 20000000
HTTP_OK == 200

\* texts the recognition service may return: nothing, fewer than five
\* characters, "a a a", exactly five and more than five characters
RecognisedTexts ==
    {<<>>, <<"a", "a">>, <<"a", " ", "a", " ", "a">>, Repeat("a", MIN_TEXT_LENGTH),
     Repeat("a", MIN_TEXT_LENGTH + 1)}

\* What the recognition service does with the one request: the connection
\* fails, it answers with a non-200 status, with a body that is not JSON,
\* with a recognition status other than success (with or without a result
\* member), or with success and a result (or no result member).
HttpOutcomes ==
    { [kind |-> "connection_error"],
      [kind |-> "response", status |-> 503],
      [kind |-> "response", status |-> HTTP_OK, body |-> [kind |-> "bad_json"]],
      [kind |-> "response", status |-> HTTP_OK,
       body |-> [kind |-> "object", members |-> [status |-> 40000001]]],
      [kind |-> "response", status |-> HTTP_OK,
       body |-> [kind |-> "object",
                 members |-> [status |-> 40000001,
                              result |-> Repeat("a", MIN_TEXT_LENGTH)]]],
      [kind |-> "response", status |-> HTTP_OK,
       body |-> [kind |-> "object", members |-> [status |-> RECOGNITION_SUCCESS]]] }
        \cup { [kind |-> "response", status |-> HTTP_OK,
                body |-> [kind |-> "object",
                          members |-> [status |-> RECOGNITION_SUCCESS, result |-> t]]] :
                 t \in RecognisedTexts }

\* What happens around one transcribe_audio call: whether each
\* AudioSegment.from_file succeeds (a file that cannot be decoded never
\* loads), how convert_to_wav ends, whether the processed file can be read,
\* and what the recognition service does.
Environments(file) ==
    { e \in [info_loaded : BOOLEAN,
             check_loaded : BOOLEAN,
             convert : {"load_error", "export_error", "ok"},
             final_loaded : BOOLEAN,
             readable : BOOLEAN,
             http : HttpOutcomes] :
        ~file.decodable =>
            /\ ~e.info_loaded
            /\ ~e.check_loaded
            /\ e.convert = "load_error" }

\* Mutant of ResponseText: the result is returned whatever the recognition
\* status is.
ResponseText_AnyStatus(response) ==
    IF response.status = HTTP_OK
    THEN IF response.body.kind # "object" THEN Raised
         ELSE Value(DictGet(response.body.members, "result", <<>>))
    ELSE Value(<<>>)

\* lines 99-113: the text returned for a response of the service
ResponseText(response) ==
    IF response.status = HTTP_OK
    THEN IF response.body.kind # "object" THEN Raised
         ELSE IF DictGet(response.body.members, "status", 0) = RECOGNITION_SUCCESS
              THEN Value(DictGet(response.body.members, "result", <<>>))
              ELSE Value(<<>>)
    ELSE Value(<<>>)

NoAudio == [sent |-> FALSE]

\* The result of transcribe_audio and what it did on the way.
\*   text: the value returned; raised: an exception leaves the method;
\*   requests: requests made to the recognition service; sent: the audio in
\*   the request body; final_compatible: final_info's alibaba_isi_compatible;
\*   wav_created: convert_to_wav made a temp file; wav_left: it still exists
\*   when the method returns.
TranscribeResult(text, requests, sent, final_compatible, wav_created, wav_left) ==
    [text |-> text, raised |-> FALSE, requests |-> requests, sent |-> sent,
     final_compatible |-> final_compatible, wav_created |-> wav_created,
     wav_left |-> wav_left]

\* Mutant of TranscribeProcessed: a failed connection is tried once more.
TranscribeProcessed_Retry(processing, converted, e) ==
    LET final_info == get_audio_info(processing, e.final_loaded)
        compatible == DictGet(final_info, "alibaba_isi_compatible", FALSE)
        sent == [sent |-> TRUE, audio |-> processing]
    IN  IF ~e.readable
        THEN TranscribeResult(<<>>, 0, NoAudio, compatible, converted, FALSE)
        ELSE IF e.http.kind = "connection_error"
        THEN TranscribeResult(<<>>, 2, sent, compatible, converted, FALSE)
        ELSE LET r == ResponseText(e.http)
             IN  TranscribeResult(IF r.exc THEN <<>> ELSE r.value, 1, sent,
                                  compatible, converted, FALSE)

\* lines 62-117 once the file to process is known; wav_path is set when the
\* file is the converted one, and the finally clause then unlinks it
TranscribeProcessed(processing, converted, e) ==
    LET final_info == get_audio_info(processing, e.final_loaded)
        compatible == DictGet(final_info, "alibaba_isi_compatible", FALSE)
        sent == [sent |-> TRUE, audio |-> processing]
    IN  IF ~e.readable
        THEN TranscribeResult(<<>>, 0, NoAudio, compatible, converted, FALSE)
        ELSE IF e.http.kind = "connection_error"
        THEN TranscribeResult(<<>>, 1, sent, compatible, converted, FALSE)
        ELSE LET r == ResponseText(e.http)
             IN  TranscribeResult(IF r.exc THEN <<>> ELSE r.value, 1, sent,
                                  compatible, converted, FALSE)

\* Mutant of transcribe_audio: the audio is converted whatever the check says.
transcribe_audio_AlwaysConverts(file, e) ==
    LET c == convert_to_wav(file, e.convert)
    IN  IF c.raised
        THEN TranscribeResult(<<>>, 0, NoAudio, FALSE, c.created, c.created)
        ELSE TranscribeProcessed(c.wav, TRUE, e)

\* AlibabaSpeechService.transcribe_audio
transcribe_audio(file, e) ==
    LET audio_info == get_audio_info(file, e.info_loaded)
        check == needs_conversion(file, e.check_loaded)
    IN  IF check.needs_conv
        THEN LET c == convert_to_wav(file, e.convert)
             IN  IF c.raised
                 THEN \* wav_path is still None: the finally clause unlinks nothing
                      TranscribeResult(<<>>, 0, NoAudio, FALSE, c.created, c.created)
                 ELSE TranscribeProcessed(c.wav, TRUE, e)
        ELSE TranscribeProcessed(file, FALSE, e)

TranscribeAudio ==
    /\ ~last_asr.called
    /\ \E file \in AudioFiles :
         \E e \in Environments(file) :
            /\ last_asr' = [called |-> TRUE, file |-> file, env |-> e,
                            check |-> needs_conversion(file, e.check_loaded),
                            result |-> transcribe_audio(file, e)]
            /\ UNCHANGED <<settings, last_risk, last_threat, last_kit, req, db, sessions>>

(***************************************************************************)
(* app/main.py: the three request handlers                                 *)
(***************************************************************************)
NO_SPEECH_DETECTED ==
    <<"[", "N", "o", " ", "s", "p", "e", "e", "c", "h", " ", "d", "e", "t", "e",
      "c", "t", "e", "d", "]">>

NO_CLEAR_SPEECH_FILE ==
    <<"[", "N", "o", " ", "c", "l", "e", "a", "r", " ", "s", "p", "e", "e", "c",
      "h", " ", "d", "e", "t", "e", "c", "t", "e", "d", " ", "i", "n", " ", "a",
      "u", "d", "i", "o", " ", "f", "i", "l", "e", "]">>

HTTP_BAD_REQUEST == 400
HTTP_INTERNAL_ERROR == 500

Endpoints == {"assessment", "summarize", "transcribe"}

\* extensions of the uploaded file's name
RequestExtensions == {".wav", ".MP3", ".txt"}

\* str.lower() on the extensions above
Lower(ext) == IF ext = ".MP3" THEN ".mp3" ELSE ext

\* uploads of the request handlers: canonical audio, audio that needs all
\* three conversions, and a payload that cannot be decoded
RequestFiles ==
    { f \in AudioFiles :
        \/ Canonical(f)
        \/ ~f.decodable
        \/ (f.frame_rate = 44100 /\ f.sample_width = 1 /\ f.channels = 2) }

\* answers of the language model to the threat prompt, in the handlers
RequestThreatPayloads ==
    { [kind |-> "call_error"],
      [kind |-> "object", members |-> <<>>],
      [kind |-> "object", members |-> [threat_score |-> JNum(Num(72))]],
      [kind |-> "object", members |-> [threat_score |-> JNum(Num(SCORE_MAX + MaxExcess))]] }

\* answers of the language model to the analysis prompt, in the handlers
RequestAnalysisPayloads ==
    { [kind |-> "call_error"], [kind |-> "bad_json"], [kind |-> "not_object"],
      [kind |-> "object", members |-> <<>>],
      [kind |-> "object",
       members |-> [incident_classification |->
                        JObj([primary_category |-> JStr("harassment")])]],
      [kind |-> "object",
       members |-> [m \in AnalysisMembers |->
                        IF m = "incident_classification"
                        THEN JObj(UpstreamClassification)
                        ELSE CHOOSE v \in UpstreamValues(m) : TRUE]] }

NoResponse == [status |-> 0]

IdleRequest == [pc |-> "Idle"]

\* the state of a request as its handler is entered
NewRequest(endpoint, ext, file, driver_id, located) ==
    [pc |-> "Received",
     visited |-> <<"Received">>,
     endpoint |-> endpoint,
     ext |-> ext,                 \* extension of audio_file.filename
     file |-> file,               \* the uploaded audio
     driver_id |-> driver_id,     \* Null when the form has none
     located |-> located,         \* location_lat and location_lng are both given
     temp_audio |-> "absent",     \* the upload's temp file: absent, present, removed
     decode_attempted |-> FALSE,  \* AudioSegment.from_file has been called
     audio_duration |-> 0,
     asr |-> NoCall,              \* what transcribe_audio did
     transcribed_text |-> Null,
     threat |-> NoCall,           \* what assess_threat_level did
     analysis |-> NoCall,         \* the completion of the analysis call
     response |-> NoResponse]

\* Mutant of Step: the step is recorded and the handler stays where it was.
Step_NoAdvance(r, pc) == [r EXCEPT !.visited = Append(r.visited, pc)]

\* the handler moves to another step
Step(r, pc) == [r EXCEPT !.pc = pc, !.visited = Append(r.visited, pc)]

\* raise HTTPException(status_code, detail) leaving the handler
HttpError(r, status, detail) ==
    [Step(r, "Failed") EXCEPT !.response = [status |-> status, detail |-> detail]]

\* raise HTTPException(400) inside the handler's try block: HTTPException is
\* an Exception, so the handler's own except Exception clause catches it and
\* raises HTTPException(500) in its place
RejectUnsupported(r) ==
    HttpError(r, HTTP_INTERNAL_ERROR, "failed: 400: Unsupported audio format")

\* An exception raised inside the inner try block: the finally clause
\* unlinks the temp file, the outer except clause raises HTTPException(500).
RaiseInside(r) ==
    [HttpError(r, HTTP_INTERNAL_ERROR, "failed") EXCEPT !.temp_audio = "removed"]

\* return <body> from inside the inner try block: the finally clause unlinks
\* the temp file and the response is sent
ReturnBody(r, body) ==
    [Step(r, "Returned") EXCEPT !.temp_audio = "removed",
                                !.response = [status |-> HTTP_OK, body |-> body]]

\* A request arrives at one of the endpoints.
Receive ==
    /\ req.pc \in {"Idle", "Returned", "Failed"}
    /\ \E endpoint \in Endpoints, ext \in RequestExtensions, file \in RequestFiles,
          driver_id \in {Null, <<"d", "1">>}, located \in BOOLEAN :
         /\ (endpoint # "assessment") => (driver_id = Null /\ ~located)
         /\ req' = NewRequest(endpoint, ext, file, driver_id, located)
    /\ UNCHANGED <<settings, last_risk, last_threat, last_kit, last_asr, db, sessions>>

\* summarize and transcribe: the format check that opens the handler
ValidateFormat ==
    /\ req.pc = "Received"
    /\ req.endpoint \in {"summarize", "transcribe"}
    /\ req' = IF is_supported_format(Lower(req.ext))
              THEN Step(req, "FormatValidated")
              ELSE RejectUnsupported(req)
    /\ UNCHANGED <<settings, last_risk, last_threat, last_kit, last_asr, db, sessions>>

\* The upload is read and written into a NamedTemporaryFile(delete=False).
\* The file exists from the moment the with block is entered; when the read
\* or the write raises, the inner try/finally has not been entered yet.
SaveUpload ==
    /\ \/ req.pc = "Received" /\ req.endpoint = "assessment"
       \/ req.pc = "FormatValidated"
    /\ \E written \in BOOLEAN :
         req' = IF written
                THEN [Step(req, "Saved") EXCEPT !.temp_audio = "present"]
                ELSE [HttpError(req, HTTP_INTERNAL_ERROR, "failed")
                         EXCEPT !.temp_audio = "present"]
    /\ UNCHANGED <<settings, last_risk, last_threat, last_kit, last_asr, db, sessions>>

\* summarize and transcribe, step 1: get_audio_info on the temp file
InspectAudio ==
    /\ req.pc = "Saved"
    /\ req.endpoint \in {"summarize", "transcribe"}
    /\ \E loaded \in BOOLEAN :
         /\ loaded => req.file.decodable
         /\ req' = [Step(req, "AudioInspected") EXCEPT
                       !.decode_attempted = TRUE,
                       !.audio_duration =
                           DictGet(get_audio_info(req.file, loaded), "duration_seconds", 0)]
    /\ UNCHANGED <<settings, last_risk, last_threat, last_kit, last_asr, db, sessions>>

\* the text the handler goes on with when transcribe_audio returns nothing
Placeholder(endpoint, text) ==
    IF Truthy(text) THEN text
    ELSE IF endpoint = "summarize" THEN NO_CLEAR_SPEECH_FILE
    ELSE NO_SPEECH_DETECTED

\* speech_service.transcribe_audio(temp_audio_path), and the placeholder
Transcribe ==
    /\ \/ req.pc = "Saved" /\ req.endpoint = "assessment"
       \/ req.pc = "AudioInspected"
    /\ \E e \in Environments(req.file) :
         LET r == transcribe_audio(req.file, e)
             called == [req EXCEPT !.decode_attempted = TRUE,
                                   !.asr = r @@ [called |-> TRUE]]
         IN  req' = IF r.raised THEN RaiseInside(called)
                    ELSE [Step(called, "Transcribed") EXCEPT
                             !.transcribed_text = Placeholder(req.endpoint, r.text)]
    /\ UNCHANGED <<settings, last_risk, last_threat, last_kit, last_asr, db, sessions>>

\* assessment and summarize: qwen_service.assess_threat_level(transcribed_text)
ScoreThreat ==
    /\ req.pc = "Transcribed"
    /\ req.endpoint \in {"assessment", "summarize"}
    /\ \E up \in RequestThreatPayloads :
         LET r == assess_threat_level(req.transcribed_text, up)
             called == [req EXCEPT !.threat = r @@ [called |-> TRUE, payload |-> up]]
         IN  req' = IF r.raised THEN RaiseInside(called)
                    ELSE Step(called, "ThreatScored")
    /\ UNCHANGED <<settings, last_risk, last_threat, last_kit, last_asr, db, sessions>>

\* calculate_location_risk: 10.0 without a position; otherwise
\* min(40, 15 + 5 + time_risk), time_risk 20 at night (22h-5h) and 5 by day
calculate_location_risk(located, hour) ==
    IF ~located THEN 10
    ELSE LET time_risk == IF 22 <= hour \/ hour <= 5 THEN 20 ELSE 5
             total == 15 + 5 + time_risk
         IN  IF total < 40 THEN total ELSE 40

\* get_driver_history_score: 5.0 without a driver; otherwise the score of
\* the bucket hash(driver_id) % 3 picks
get_driver_history_score(driver_id, bucket) ==
    IF driver_id = Null THEN 5
    ELSE <<0, 10, 25>>[bucket + 1]

MEDIUM_MESSAGE ==
    "We see your risk is at medium level, help me to confirm this by giving yes/no"
HIGH_MESSAGE ==
    "We see your risk is at high level, help me to confirm this by giving yes/no"

\* Mutant of get_push_notification_message: one text for both levels.
get_push_notification_message_OneText(risk_level) ==
    CASE risk_level = "Medium" -> MEDIUM_MESSAGE
      [] risk_level = "High" -> MEDIUM_MESSAGE
      [] OTHER -> ""

\* messages.get(risk_level, "")
get_push_notification_message(risk_level) ==
    CASE risk_level = "Medium" -> MEDIUM_MESSAGE
      [] risk_level = "High" -> HIGH_MESSAGE
      [] OTHER -> ""

\* push_notification = None
NoNotification == "<None>"

\* lines 81-109: the AssessmentResponse built from the threat score
AssessmentBody(r, hour, bucket) ==
    LET location_risk == calculate_location_risk(r.located, hour)
        driver_history_score == get_driver_history_score(r.driver_id, bucket)
        risk == calculate_overall_risk(r.threat.score.v, location_risk,
                                       driver_history_score, settings)
        action_required == risk.risk_level \in {"Medium", "High"}
    IN  [risk_score |-> risk.overall_score,
         risk_level |-> risk.risk_level,
         threat_text_score |-> r.threat.score,
         location_risk_index |-> location_risk,
         driver_history_score |-> driver_history_score,
         transcribed_text |-> r.transcribed_text,
         action_required |-> action_required,
         push_notification |->
             IF action_required THEN get_push_notification_message(risk.risk_level)
             ELSE NoNotification]

\* assessment, steps 3 to 6 and the return
Aggregate ==
    /\ req.pc = "ThreatScored"
    /\ req.endpoint = "assessment"
    /\ \E hour \in 0..23, bucket \in 0..2 :
         req' = ReturnBody(Step(req, "Aggregated"), AssessmentBody(req, hour, bucket))
    /\ UNCHANGED <<settings, last_risk, last_threat, last_kit, last_asr, db, sessions>>

\* main.py lines 183-191
RideContext(r) ==
    [incident_id |-> JNull, ride_id |-> JNull, passenger_id |-> JNull,
     driver_id |-> JNull, additional_context |-> JNull,
     audio_filename |-> JStr(r.ext), file_size_bytes |-> JNum(Num(0))]

\* the kit qwen_service.create_evidence_kit returns for the request
RequestKit(r, up) ==
    QwenService_create_evidence_kit(r.transcribed_text, r.audio_duration,
        RiskAssessmentContext(r.threat.score), RideContext(r), up)

\* summarize, step 6: the analysis call of qwen_service.create_evidence_kit.
\* When the call raises, the except clause of the method builds the
\* fallback kit.
Classify ==
    /\ req.pc = "ThreatScored"
    /\ req.endpoint = "summarize"
    /\ \E up \in RequestAnalysisPayloads :
         req' = IF up.kind = "call_error"
                THEN [Step(req, "FailedAssembled") EXCEPT
                         !.analysis = up @@ [called |-> TRUE, kit |-> RequestKit(req, up)]]
                ELSE [Step(req, "Classified") EXCEPT
                         !.analysis = up @@ [called |-> TRUE]]
    /\ UNCHANGED <<settings, last_risk, last_threat, last_kit, last_asr, db, sessions>>

\* summarize: json.loads of the completion and the assembly of the kit, or
\* of the fallback kit when either raises
Assemble ==
    /\ req.pc = "Classified"
    /\ req' = [Step(req, IF req.analysis.kind = "object" THEN "Assembled"
                         ELSE "FailedAssembled")
                  EXCEPT !.analysis = [kit |-> RequestKit(req, req.analysis)]
                                          @@ req.analysis]
    /\ UNCHANGED <<settings, last_risk, last_threat, last_kit, last_asr, db, sessions>>

\* summarize: return evidence_kit
ReturnKit ==
    /\ req.pc \in {"Assembled", "FailedAssembled"}
    /\ req' = ReturnBody(req, req.analysis.kit)
    /\ UNCHANGED <<settings, last_risk, last_threat, last_kit, last_asr, db, sessions>>

\* transcribe: the response built from the transcript and the audio info
ReturnTranscript ==
    /\ req.pc = "Transcribed"
    /\ req.endpoint = "transcribe"
    /\ req' = ReturnBody(req, [transcript |-> req.transcribed_text,
                               filename |-> req.ext])
    /\ UNCHANGED <<settings, last_risk, last_threat, last_kit, last_asr, db, sessions>>

(***************************************************************************)
(* app/database and app/services/database_service.py                       *)
(*                                                                         *)
(* Every request opens its own session (get_db), which is one transaction  *)
(* committed when the request is over.  Statements see the committed rows  *)
(* (PostgreSQL's default isolation, read committed); an UPDATE holds its   *)
(* row until the commit; rows added to a session are inserted by the next  *)
(* flush, at the latest by the commit.  Coordinates are in thousandths of  *)
(* a degree.                                                               *)
(***************************************************************************)
\* Requests whose sessions are open at the same time.
MaxSessions == 3

SessionIds == 1..MaxSessions

\* get_location_risk: radius_km = 1.0, and 111.0 km to the degree
RADIUS_KM == 1
KM_PER_DEGREE == 111

\* three points on a line, 0.005 degrees apart: the middle one is within the
\* lookup radius of both ends, the ends are not within each other's
Points ==
    { [lat |-> 0, lng |-> 0], [lat |-> 5, lng |-> 0], [lat |-> 10, lng |-> 0] }

RiskIndexes == {30, 50}

DriverIds == {"d1"}

DriverScores == {25}

Abs(x) == IF x < 0 THEN -x ELSE x

\* the where clause of get_location_risk:
\* abs(latitude - lat) < radius_km / 111.0 and abs(longitude - lng) < radius_km / 111.0
InLookupBox(row, point) ==
    /\ Abs(row.latitude - point.lat) * KM_PER_DEGREE < RADIUS_KM * 1000
    /\ Abs(row.longitude - point.lng) * KM_PER_DEGREE < RADIUS_KM * 1000

\* the rows the select of get_location_risk returns
LocationsInBox(point) == { row \in db.location_risks : InLookupBox(row, point) }

\* result.scalar_one_or_none(): MultipleResultsFound for more than one row
scalar_one_or_none(rows) ==
    IF Cardinality(rows) > 1 THEN Raised ELSE Value(rows)

\* LocationRiskRepository.get_location_risk: the row as a set of at most one
get_location_risk(point) == scalar_one_or_none(LocationsInBox(point))

\* DriverRepository.get_driver_by_id
get_driver_by_id(driver_id) ==
    scalar_one_or_none({ row \in db.drivers : row.driver_id = driver_id })

EmptyDatabase == [location_risks |-> {}, drivers |-> {}]

\* A session before its request has made a call.
\*   rows, drivers_found: what the select returned; add: location rows added
\*   to the session; increment: id of the location row its UPDATE holds;
\*   flushed: driver rows inserted by a flush; set_score: its UPDATE of the
\*   driver's score is pending; result: the value the service returned;
\*   raised: the service caught an exception; flush_failed: a flush raised
IdleSession ==
    [pc |-> "idle", op |-> "none", point |-> [lat |-> 0, lng |-> 0], value |-> 0,
     driver_id |-> "", rows |-> {}, drivers_found |-> {}, add |-> {},
     increment |-> 0, flushed |-> {}, set_score |-> FALSE, result |-> 0,
     raised |-> FALSE, flush_failed |-> FALSE]

NoSessions == [s \in SessionIds |-> IdleSession]

\* another session's uncommitted UPDATE holds the location row
RowLocked(s, id) ==
    \E o \in SessionIds \ {s} :
        sessions[o].pc = "returned" /\ sessions[o].increment = id

\* another session's uncommitted UPDATE holds the driver's row
DriverLocked(s, driver_id) ==
    \E o \in SessionIds \ {s} :
        /\ sessions[o].pc = "returned"
        /\ sessions[o].set_score
        /\ sessions[o].driver_id = driver_id

\* another session has inserted the driver_id and not committed yet: an
\* insert of the same driver_id waits on the unique index
InsertPending(s, driver_id) ==
    \E o \in SessionIds \ {s} :
        /\ sessions[o].pc = "returned"
        /\ \E row \in sessions[o].flushed : row.driver_id = driver_id

\* Mutant of DriverIdTaken: driver_id is not declared unique.
DriverIdTaken_NotUnique(drivers, driver_id) == FALSE

\* Driver.driver_id is unique: an insert of a driver_id a committed row has
\* raises IntegrityError
DriverIdTaken(drivers, driver_id) ==
    \E row \in drivers : row.driver_id = driver_id

\* update_location_risk, first statement: location = get_location_risk(lat, lng).
\* MultipleResultsFound leaves the repository and is caught and logged by
\* DatabaseService.update_location_risk.
UpdateLocationSelect(s) ==
    /\ sessions[s].pc = "idle"
    /\ \E point \in Points, risk_index \in RiskIndexes :
         LET location == get_location_risk(point)
             begun == [IdleSession EXCEPT !.op = "update_location_risk",
                                          !.point = point,
                                          !.value = risk_index,
                                          !.rows = LocationsInBox(point)]
         IN  sessions' = [sessions EXCEPT ![s] =
                 IF location.exc
                 THEN [begun EXCEPT !.pc = "returned", !.raised = TRUE]
                 ELSE [begun EXCEPT !.pc = "selected"]]
    /\ UNCHANGED <<settings, last_risk, last_threat, last_kit, last_asr, req, db>>

\* update_location_risk, second statement: the UPDATE of the row found
\* (incident_count = incident_count + 1, evaluated by the database), or
\* session.add of a new row with incident_count 1
UpdateLocationWrite(s) ==
    /\ sessions[s].pc = "selected"
    /\ sessions[s].op = "update_location_risk"
    /\ IF sessions[s].rows # {}
       THEN LET location == CHOOSE row \in sessions[s].rows : TRUE
            IN  /\ ~RowLocked(s, location.id)
                /\ sessions' = [sessions EXCEPT ![s].pc = "returned",
                                                ![s].increment = location.id]
       ELSE sessions' = [sessions EXCEPT
                ![s].pc = "returned",
                ![s].add = {[latitude |-> sessions[s].point.lat,
                             longitude |-> sessions[s].point.lng,
                             risk_index |-> sessions[s].value,
                             incident_count |-> 1]}]
    /\ UNCHANGED <<settings, last_risk, last_threat, last_kit, last_asr, req, db>>

\* DatabaseService.get_location_risk_index: the row's risk_index, 0.0 when
\* there is no row and when get_location_risk raises
GetLocationRiskIndex(s) ==
    /\ sessions[s].pc = "idle"
    /\ \E point \in Points :
         LET location_risk == get_location_risk(point)
             begun == [IdleSession EXCEPT !.op = "get_location_risk_index",
                                          !.point = point,
                                          !.rows = LocationsInBox(point),
                                          !.pc = "returned"]
         IN  sessions' = [sessions EXCEPT ![s] =
                 IF location_risk.exc THEN [begun EXCEPT !.raised = TRUE, !.result = 0]
                 ELSE IF location_risk.value = {} THEN [begun EXCEPT !.result = 0]
                 ELSE [begun EXCEPT !.result =
                          (CHOOSE row \in location_risk.value : TRUE).risk_index]]
    /\ UNCHANGED <<settings, last_risk, last_threat, last_kit, last_asr, req, db>>

\* DatabaseService.get_driver_risk_history, first statement:
\* driver = get_driver_by_id(driver_id); the score is returned when found
GetDriverSelect(s) ==
    /\ sessions[s].pc = "idle"
    /\ \E driver_id \in DriverIds :
         LET driver == get_driver_by_id(driver_id)
             begun == [IdleSession EXCEPT !.op = "get_driver_risk_history",
                                          !.driver_id = driver_id]
         IN  sessions' = [sessions EXCEPT ![s] =
                 IF driver.exc
                 THEN [begun EXCEPT !.pc = "returned", !.raised = TRUE, !.result = 0]
                 ELSE IF driver.value = {} THEN [begun EXCEPT !.pc = "selected"]
                 ELSE [begun EXCEPT
                          !.pc = "returned",
                          !.drivers_found = driver.value,
                          !.result = (CHOOSE row \in driver.value : TRUE).risk_history_score]]
    /\ UNCHANGED <<settings, last_risk, last_threat, last_kit, last_asr, req, db>>

\* get_driver_risk_history, the else branch: create_driver adds the row and
\* flushes.  The insert waits while another session's insert of the same
\* driver_id is uncommitted, and raises IntegrityError once a committed row
\* has the driver_id; the service catches it and returns 0.0.
GetDriverCreate(s) ==
    /\ sessions[s].pc = "selected"
    /\ sessions[s].op = "get_driver_risk_history"
    /\ ~InsertPending(s, sessions[s].driver_id)
    /\ sessions' = [sessions EXCEPT ![s] =
           IF DriverIdTaken(db.drivers, sessions[s].driver_id)
           THEN [@ EXCEPT !.pc = "returned", !.raised = TRUE,
                          !.flush_failed = TRUE, !.result = 0]
           ELSE [@ EXCEPT !.pc = "returned", !.result = 0,
                          !.flushed = {[driver_id |-> sessions[s].driver_id,
                                        risk_history_score |-> 0]}]]
    /\ UNCHANGED <<settings, last_risk, last_threat, last_kit, last_asr, req, db>>

\* DatabaseService.update_driver_risk_score: one UPDATE of the driver's row
UpdateDriverRiskScore(s) ==
    /\ sessions[s].pc = "idle"
    /\ \E driver_id \in DriverIds, new_score \in DriverScores :
         /\ ~DriverLocked(s, driver_id)
         /\ sessions' = [sessions EXCEPT ![s] =
                [IdleSession EXCEPT !.op = "update_driver_risk_score",
                                    !.driver_id = driver_id,
                                    !.value = new_score,
                                    !.set_score = DriverIdTaken(db.drivers, driver_id),
                                    !.pc = "returned"]]
    /\ UNCHANGED <<settings, last_risk, last_threat, last_kit, last_asr, req, db>>

\* the location_risks table once the session's work is committed
CommittedLocations(t) ==
    { IF row.id = t.increment
      THEN [row EXCEPT !.risk_index = t.value,
                       !.incident_count = row.incident_count + 1]
      ELSE row : row \in db.location_risks }
        \cup { row @@ [id |-> Cardinality(db.location_risks) + 1] : row \in t.add }

\* the drivers table once the session's work is committed
CommittedDrivers(t) ==
    { IF t.set_score /\ row.driver_id = t.driver_id
      THEN [row EXCEPT !.risk_history_score = t.value]
      ELSE row : row \in db.drivers }
        \cup { row @@ [id |-> Cardinality(db.drivers) + 1] : row \in t.flushed }

\* get_db after the request: session.commit(), which raises after a failed
\* flush, and then session.rollback()
Commit(s) ==
    /\ sessions[s].pc = "returned"
    /\ IF sessions[s].flush_failed
       THEN /\ sessions' = [sessions EXCEPT ![s].pc = "rolled_back"]
            /\ db' = db
       ELSE /\ sessions' = [sessions EXCEPT ![s].pc = "committed"]
            /\ db' = [location_risks |-> CommittedLocations(sessions[s]),
                      drivers |-> CommittedDrivers(sessions[s])]
    /\ UNCHANGED <<settings, last_risk, last_threat, last_kit, last_asr, req>>

(***************************************************************************)
(* Specifications                                                          *)
(***************************************************************************)
Init ==
    /\ settings = DefaultSettings
    /\ last_risk = NoCall
    /\ last_threat = NoCall
    /\ last_kit = NoCall
    /\ last_asr = NoCall
    /\ req = IdleRequest
    /\ db = EmptyDatabase
    /\ sessions = NoSessions

Next ==
    \/ Receive
    \/ ValidateFormat
    \/ SaveUpload
    \/ InspectAudio
    \/ Transcribe
    \/ ScoreThreat
    \/ Aggregate
    \/ Classify
    \/ Assemble
    \/ ReturnKit
    \/ ReturnTranscript

\* The service answering one request after another.
Spec == Init /\ [][Next]_vars

InitThreat ==
    /\ settings = DefaultSettings
    /\ last_risk = NoCall
    /\ last_threat = NoCall
    /\ last_kit = NoCall
    /\ last_asr = NoCall
    /\ req = IdleRequest
    /\ db = EmptyDatabase
    /\ sessions = NoSessions

NextThreat == AssessThreatLevel

\* The threat scorer called with any transcript and any upstream behaviour.
SpecThreat == InitThreat /\ [][NextThreat]_vars

InitKit ==
    /\ settings = DefaultSettings
    /\ last_risk = NoCall
    /\ last_threat = NoCall
    /\ last_kit = NoCall
    /\ last_asr = NoCall
    /\ req = IdleRequest
    /\ db = EmptyDatabase
    /\ sessions = NoSessions

NextKit == CreateEvidenceKit

\* Evidence-kit assembly called with any analysis payload.
SpecKit == InitKit /\ [][NextKit]_vars

InitAudio ==
    /\ settings = DefaultSettings
    /\ last_risk = NoCall
    /\ last_threat = NoCall
    /\ last_kit = NoCall
    /\ last_asr = NoCall
    /\ req = IdleRequest
    /\ db = EmptyDatabase
    /\ sessions = NoSessions

NextAudio == TranscribeAudio

\* transcribe_audio called on any audio file in any environment.
SpecAudio == InitAudio /\ [][NextAudio]_vars

InitRisk ==
    /\ settings \in Settings
    /\ last_risk = NoCall
    /\ last_threat = NoCall
    /\ last_kit = NoCall
    /\ last_asr = NoCall
    /\ req = IdleRequest
    /\ db = EmptyDatabase
    /\ sessions = NoSessions

NextRisk == CalculateOverallRisk

\* The risk aggregator called with any inputs under any configuration.
SpecRisk == InitRisk /\ [][NextRisk]_vars

InitLocation ==
    /\ settings = DefaultSettings
    /\ last_risk = NoCall
    /\ last_threat = NoCall
    /\ last_kit = NoCall
    /\ last_asr = NoCall
    /\ req = IdleRequest
    /\ db = EmptyDatabase
    /\ sessions = NoSessions

NextLocation ==
    \/ \E s \in SessionIds : UpdateLocationSelect(s)
    \/ \E s \in SessionIds : UpdateLocationWrite(s)
    \/ \E s \in SessionIds : GetLocationRiskIndex(s)
    \/ \E s \in SessionIds : Commit(s)

\* Concurrent requests reading and recording location risks.
SpecLocation == InitLocation /\ [][NextLocation]_vars

InitDriver ==
    /\ settings = DefaultSettings
    /\ last_risk = NoCall
    /\ last_threat = NoCall
    /\ last_kit = NoCall
    /\ last_asr = NoCall
    /\ req = IdleRequest
    /\ db = EmptyDatabase
    /\ sessions = NoSessions

NextDriver ==
    \/ \E s \in SessionIds : GetDriverSelect(s)
    \/ \E s \in SessionIds : GetDriverCreate(s)
    \/ \E s \in SessionIds : UpdateDriverRiskScore(s)
    \/ \E s \in SessionIds : Commit(s)

\* Concurrent requests looking up and updating driver scores.
SpecDriver == InitDriver /\ [][NextDriver]_vars

(***************************************************************************)
(* C1: under thresholds low < medium, calculate_overall_risk classifies a  *)
(* score s as Low iff s <= low, Medium iff low < s <= medium and High iff  *)
(* s > medium; with the defaults 39.00 is Low, 69.00 is Medium and 70.00   *)
(* is High; the level is always one of the three.                          *)
(***************************************************************************)
C1_ThresholdClassification ==
    (last_risk.called /\ settings.low < settings.medium) =>
        LET s == last_risk.result.overall_score
            lv == last_risk.result.risk_level
            lo == settings.low * 100
            md == settings.medium * 100
        IN  /\ lv \in RiskLevels
            /\ (lv = "Low") <=> (s <= lo)
            /\ (lv = "Medium") <=> (lo < s /\ s <= md)
            /\ (lv = "High") <=> (s > md)
            /\ (settings = DefaultSettings /\ s = 3900) => lv = "Low"
            /\ (settings = DefaultSettings /\ s = 6900) => lv = "Medium"
            /\ (settings = DefaultSettings /\ s = 7000) => lv = "High"

\* A score exactly on the medium threshold has been classified.
C1_Witness ==
    /\ last_risk.called
    /\ settings = DefaultSettings
    /\ last_risk.result.overall_score = 6900
    /\ last_risk.result.risk_level = "Medium"

(***************************************************************************)
(* Threat scorer claims, under SpecThreat                                  *)
(***************************************************************************)
\* number of characters of a transcript that are not whitespace
NonWhitespaceCount(text) ==
    Cardinality({ i \in 1..Len(text) : text[i] \notin Whitespace })

\* length of a transcript once leading and trailing whitespace is trimmed
TrimmedLength(text) == Len(strip(text))

\* C7 as stated: every transcript with fewer than 5 non-whitespace
\* characters, wherever its whitespace sits, scores 0 with no upstream call.
C7_Original ==
    (/\ last_threat.called
     /\ last_threat.text # Null
     /\ NonWhitespaceCount(last_threat.text) < 5) =>
        /\ last_threat.result.score = Num(0)
        /\ last_threat.result.upstream_calls = 0

\* C7 (amended): a transcript with fewer than 5 non-whitespace characters
\* scores 0 without an upstream call when its length after trimming leading
\* and trailing whitespace is below 5; interior whitespace counts towards
\* that length, so one whose trimmed length is 5 or more (such as "a b c")
\* is sent to the language model, in exactly one call.
C7_TrimmedShortCircuit ==
    (/\ last_threat.called
     /\ last_threat.text # Null
     /\ NonWhitespaceCount(last_threat.text) < 5) =>
        IF TrimmedLength(last_threat.text) < 5
        THEN /\ last_threat.result.score = Num(0)
             /\ last_threat.result.upstream_calls = 0
        ELSE last_threat.result.upstream_calls = 1

\* "a b c" was scored: three non-whitespace characters, and one upstream call.
C7_Witness ==
    /\ last_threat.called
    /\ last_threat.text = <<"a", " ", "a", " ", "a">>
    /\ last_threat.result.upstream_calls = 1

\* C8: every input whose trimmed length is below 5, the empty and the
\* missing transcript included, is scored 0.0 with zero upstream calls.
C8_ShortInputNoUpstreamCall ==
    (/\ last_threat.called
     /\ \/ last_threat.text = Null
        \/ TrimmedLength(last_threat.text) < 5) =>
        /\ ~last_threat.result.raised
        /\ last_threat.result.score = Num(0)
        /\ last_threat.result.upstream_calls = 0

\* A five-character input that trims to three characters was scored 0
\* without a call, whatever the language model would have answered.
C8_Witness ==
    /\ last_threat.called
    /\ last_threat.text = <<" ", "a", "a", "a", " ">>
    /\ last_threat.upstream = [kind |-> "object",
                               members |-> [threat_score |-> JNum(Num(72))]]
    /\ last_threat.result.score = Num(0)
    /\ last_threat.result.upstream_calls = 0

\* the threat_score member the language model sent, when it sent an object
SentMember(up) == DictGet(up.members, "threat_score", JNull)

\* C9: for every transcript and upstream behaviour no exception leaves
\* assess_threat_level and the score is a number in [0, 100]; a failed call,
\* an unparseable response, a missing or unparseable member give 0, a
\* negative number gives 0, a number above 100 gives 100 and a number in
\* [0, 100] is returned as sent.
C9_ScoreClamped ==
    last_threat.called =>
        LET r == last_threat.result
            up == last_threat.upstream
        IN  /\ ~r.raised
            /\ ~r.score.nan
            /\ 0 <= r.score.v /\ r.score.v <= 100
            /\ up.kind # "object" => r.score = Num(0)
            /\ (up.kind = "object" /\ SentMember(up).t # "num") => r.score = Num(0)
            /\ (/\ r.upstream_calls = 1
                /\ up.kind = "object"
                /\ SentMember(up).t = "num"
                /\ ~SentMember(up).num.nan) =>
                   LET n == SentMember(up).num.v
                   IN  /\ n < 0 => r.score = Num(0)
                       /\ n > 100 => r.score = Num(100)
                       /\ (0 <= n /\ n <= 100) => r.score = Num(n)

\* The language model was called, answered 101 and the score is 100.
C9_Witness ==
    /\ last_threat.called
    /\ last_threat.result.upstream_calls = 1
    /\ last_threat.upstream = [kind |-> "object",
                               members |-> [threat_score |-> JNum(Num(101))]]
    /\ last_threat.result.score = Num(100)

(***************************************************************************)
(* Evidence-kit assembly claims, under SpecKit                             *)
(***************************************************************************)
\* the defaults as the specification documents them
DocumentedClassification ==
    JObj([primary_category |-> JStr("normal_ride"),
          secondary_categories |-> JList(<<>>),
          severity_level |-> JStr("low"),
          urgency |-> JStr("low"),
          requires_immediate_action |-> JBool(FALSE)])

DocumentedDefaults ==
    [executive_summary |-> JStr("No significant safety concerns detected."),
     incident_classification |-> DocumentedClassification,
     threat_indicators |-> JList(<<>>),
     recommended_actions |-> JList(<<JStr("No specific actions required")>>),
     confidence_level |-> JNum(Num(80))]

\* where the kit carries a member of the analysis
KitMember(kit, member) ==
    IF member = "threat_indicators"
    THEN kit.evidence_details.obj.threat_indicators
    ELSE kit[member]

KitHasMember(kit, member) ==
    IF member = "threat_indicators"
    THEN /\ "evidence_details" \in DOMAIN kit
         /\ "threat_indicators" \in DOMAIN kit.evidence_details.obj
    ELSE member \in DOMAIN kit

\* C3 as stated: when the classification call throws, the returned kit has
\* an id, a timestamp, the transcript and an error annotation, and its
\* classification is present with the documented defaults, with an empty
\* threat-indicator list.
C3_FallbackKitHasDefaultClassification ==
    (last_kit.called /\ last_kit.upstream.kind = "call_error") =>
        LET kit == last_kit.result
        IN  /\ {"evidence_kit_id", "processing_timestamp", "evidence_details", "error"}
                   \subseteq DOMAIN kit
            /\ kit.evidence_details.obj.full_transcript
                   = JText(KitTranscript(last_kit.transcript))
            /\ kit.evidence_details.obj.threat_indicators = JList(<<>>)
            /\ "incident_classification" \in DOMAIN kit
            /\ kit.incident_classification = DocumentedClassification

\* C4: when the classification payload is a JSON object, each of
\* executive_summary, incident_classification, threat_indicators,
\* recommended_actions and confidence_level is in the kit, with the upstream
\* value when the payload has the member and the documented default when it
\* has not; with no member sent the kit carries all five defaults.
C4_DefaultsFieldByField ==
    (last_kit.called /\ last_kit.upstream.kind = "object") =>
        LET kit == last_kit.result
            sent == last_kit.upstream.members
        IN  \A member \in DOMAIN DocumentedDefaults :
                /\ KitHasMember(kit, member)
                /\ KitMember(kit, member) =
                      IF member \in DOMAIN sent THEN sent[member]
                      ELSE DocumentedDefaults[member]

\* A payload with a summary and without a confidence level was assembled:
\* the kit has the upstream summary and confidence 0.8.
C4_Witness ==
    /\ last_kit.called
    /\ last_kit.upstream.kind = "object"
    /\ DOMAIN last_kit.upstream.members = {"executive_summary", "threat_indicators"}
    /\ last_kit.upstream.members.executive_summary # JNull
    /\ last_kit.result.executive_summary = last_kit.upstream.members.executive_summary
    /\ last_kit.result.confidence_level = JNum(Num(80))
    /\ last_kit.result.incident_classification = DocumentedClassification

\* the members SummaryResponse requires at the top level
SchemaMembers ==
    {"evidence_kit_id", "processing_timestamp", "ride_details", "audio_analysis",
     "executive_summary", "incident_classification", "evidence_details",
     "recommended_actions", "follow_up_required", "overall_risk_score",
     "confidence_level"}

\* C5 as stated: for every upstream payload, the kit returned has every
\* member of the schema, none of them null, and a classification with all
\* five of its members.
C5_SchemaComplete ==
    (last_kit.called /\ last_kit.upstream.kind = "object") =>
        LET kit == last_kit.result
        IN  /\ SchemaMembers \subseteq DOMAIN kit
            /\ \A member \in SchemaMembers : kit[member] # JNull
            /\ kit.incident_classification.t = "obj"
            /\ ClassificationMembers \subseteq DOMAIN kit.incident_classification.obj

(***************************************************************************)
(* Request handler claims, under Spec                                      *)
(***************************************************************************)
Visited(step) == \E i \in 1..Len(req.visited) : req.visited[i] = step

Finished == req.pc \in {"Returned", "Failed"}

C6_UnsupportedFormatRejectedWith400 ==
    (/\ req.pc \notin {"Idle", "Received"}
     /\ req.endpoint \in {"summarize", "transcribe"}
     /\ Lower(req.ext) \notin SUPPORTED_FORMATS) =>
        /\ req.pc = "Failed"
        /\ req.temp_audio = "absent"
        /\ ~req.decode_attempted
        /\ req.response.status = HTTP_BAD_REQUEST

(***************************************************************************)
(* Transcription claims, under SpecAudio                                   *)
(***************************************************************************)
\* C10 as stated: the audio sent to the recognition service is always
\* 16000 Hz, 16-bit, mono, and when the final check of the audio to be sent
\* does not report it compatible (it is not, or it cannot be inspected) no
\* request is made.
C10_OnlyVerifiedCanonicalAudioSent ==
    last_asr.called =>
        LET r == last_asr.result
        IN  /\ r.sent.sent =>
                  /\ r.sent.audio.frame_rate = 16000
                  /\ r.sent.audio.sample_width = 2
                  /\ r.sent.audio.channels = 1
            /\ ~r.final_compatible => r.requests = 0

\* C11 as stated: every intermediate file convert_to_wav created during a
\* transcribe_audio call no longer exists when transcribe_audio returns.
C11_IntermediateFilesRemoved ==
    last_asr.called =>
        (last_asr.result.wav_created => ~last_asr.result.wav_left)

\* the recognition service answered HTTP 200 with recognition status success
RecognitionSucceeded(http) ==
    /\ http.kind = "response"
    /\ http.status = 200
    /\ http.body.kind = "object"
    /\ "status" \in DOMAIN http.body.members
    /\ http.body.members.status = 20000000

\* C13: transcribe_audio never raises; once the request is made, it returns
\* the empty string on a connection error, a non-200 status, a body that
\* cannot be used, a recognition status other than 20000000 or a missing
\* result, and the recognised text exactly when both statuses are success.
C13_RecoverableFailureGivesEmptyString ==
    last_asr.called =>
        LET r == last_asr.result
            h == last_asr.env.http
        IN  /\ ~r.raised
            /\ r.requests = 1 =>
                  IF RecognitionSucceeded(h)
                  THEN r.text = IF "result" \in DOMAIN h.body.members
                                THEN h.body.members.result ELSE <<>>
                  ELSE r.text = <<>>

\* The service answered 200 with a recognition status other than success
\* and a result member all the same: the empty string was returned.
C13_Witness ==
    /\ last_asr.called
    /\ last_asr.result.requests = 1
    /\ last_asr.env.http.kind = "response"
    /\ last_asr.env.http.status = HTTP_OK
    /\ last_asr.env.http.body.kind = "object"
    /\ last_asr.env.http.body.members.status # RECOGNITION_SUCCESS
    /\ "result" \in DOMAIN last_asr.env.http.body.members
    /\ last_asr.result.text = <<>>

\* the properties of a file that differ from the canonical constraint; a
\* file that cannot be decoded has no properties to compare
Mismatches(file) ==
    IF ~file.decodable THEN {}
    ELSE (IF file.frame_rate # 16000 THEN {"sample_rate"} ELSE {})
         \cup (IF file.sample_width # 2 THEN {"bit_depth"} ELSE {})
         \cup (IF file.channels # 1 THEN {"channels"} ELSE {})

\* the answer of needs_conversion is the field-by-field comparison
FieldByField(check, file) ==
    /\ check.needs_conv <=> Mismatches(file) # {}
    /\ check.needs_conv =>
          /\ { check.reason[i] : i \in 1..Len(check.reason) } = Mismatches(file)
          /\ Len(check.reason) = Cardinality(Mismatches(file))
    /\ ~check.needs_conv => check.reason = <<"already_compatible">>

\* C20 as stated: needs_conversion returns true iff a property differs from
\* the canonical constraint, its reason lists exactly the mismatching
\* properties, and it returns false with "already_compatible" otherwise.
C20_Original ==
    last_asr.called => FieldByField(last_asr.check, last_asr.file)

\* C20, amended: the above holds whenever needs_conversion can load the
\* audio; when it cannot, it returns true with the reason "error_checking".
C20_FieldByFieldWhenLoaded ==
    last_asr.called =>
        IF last_asr.env.check_loaded
        THEN FieldByField(last_asr.check, last_asr.file)
        ELSE /\ last_asr.check.needs_conv
             /\ last_asr.check.reason = <<"error_checking">>

\* needs_conversion loaded a 44100 Hz, 8-bit, stereo file and reported all
\* three properties.
C20_Witness ==
    /\ last_asr.called
    /\ last_asr.env.check_loaded
    /\ last_asr.file.frame_rate = 44100
    /\ last_asr.file.sample_width = 1
    /\ last_asr.file.channels = 2
    /\ last_asr.check.needs_conv
    /\ Len(last_asr.check.reason) = 3

(***************************************************************************)
(* Request claims, under Spec                                              *)
(***************************************************************************)
\* C12 as stated: the temp file a handler creates for the upload is deleted
\* before the request completes, on every exit path.
C12_UploadTempFileRemoved ==
    (req.pc \in {"Returned", "Failed"}) => req.temp_audio # "present"

\* C14 as stated: a payload that cannot be decoded makes transcribe_audio
\* raise, and its request ends as a processing failure, not with a verdict,
\* a kit or a transcript.
C14_UndecodablePayloadFailsRequest ==
    (/\ req.pc # "Idle"
     /\ req.asr.called
     /\ ~req.file.decodable) =>
        /\ req.asr.raised
        /\ req.pc = "Failed"
        /\ req.response.status = HTTP_INTERNAL_ERROR

\* the language-model call of the threat scorer was made and did not give
\* a usable answer
ThreatCallFailed(threat) ==
    /\ threat.upstream_calls = 1
    /\ \/ threat.payload.kind # "object"
       \/ "threat_score" \notin DOMAIN threat.payload.members

\* C15 as stated: on the assessment path a failed or non-success
\* transcription or language-model call is never escalated, and the
\* assessment returned is computed from the defaults: an empty transcript
\* when transcription gave nothing, a threat score of 0 then and when the
\* language-model call failed.
C15_QuickAssessmentAbsorbsFailures ==
    (/\ req.pc # "Idle"
     /\ req.endpoint = "assessment"
     /\ Visited("Saved")) =>
        /\ req.pc # "Failed"
        /\ req.pc = "Returned" =>
              LET b == req.response.body
              IN  /\ req.response.status = HTTP_OK
                  /\ req.asr.text = <<>> =>
                        /\ b.transcribed_text = <<>>
                        /\ b.threat_text_score = Num(0)
                  /\ ThreatCallFailed(req.threat) => b.threat_text_score = Num(0)

\* C16 as stated: audio that decodes and is recognised as an empty
\* transcript is reported with an empty transcript and threat score 0; with
\* location 10 and driver history 0 the overall score is 2.5 (250
\* hundredths), the level Low, no action required and no notification.
C16_SilentAudioScenario ==
    (/\ req.pc = "Returned"
     /\ req.endpoint = "assessment"
     /\ req.file.decodable
     /\ req.asr.requests = 1
     /\ req.asr.text = <<>>) =>
        LET b == req.response.body
        IN  /\ b.transcribed_text = <<>>
            /\ b.threat_text_score = Num(0)
            /\ (b.location_risk_index = 10 /\ b.driver_history_score = 0) =>
                  /\ b.risk_score = 250
                  /\ b.risk_level = "Low"
                  /\ ~b.action_required
                  /\ b.push_notification = NoNotification

\* C17: in every assessment response action_required is true iff the level
\* is Medium or High, and the notification is the fixed Medium text for
\* Medium, the fixed High text for High and None (not "") for Low.
C17_ActionAndNotificationFollowLevel ==
    (req.pc = "Returned" /\ req.endpoint = "assessment") =>
        LET b == req.response.body
        IN  /\ b.action_required <=> b.risk_level \in {"Medium", "High"}
            /\ b.risk_level = "Medium" => b.push_notification =
                  "We see your risk is at medium level, help me to confirm this by giving yes/no"
            /\ b.risk_level = "High" => b.push_notification =
                  "We see your risk is at high level, help me to confirm this by giving yes/no"
            /\ b.risk_level = "Low" =>
                  /\ b.push_notification = NoNotification
                  /\ b.push_notification # ""

\* An assessment was returned with level High, action required and the
\* High text.
C17_Witness ==
    /\ req.pc = "Returned"
    /\ req.endpoint = "assessment"
    /\ req.response.body.risk_level = "High"
    /\ req.response.body.action_required
    /\ req.response.body.push_notification = HIGH_MESSAGE

(***************************************************************************)
(* Aggregation claims, under SpecRisk                                      *)
(***************************************************************************)
\* the overall score is the weighted sum, in hundredths, and the weights
\* add up to 1.0 (100 hundredths)
WeightedSumHolds ==
    /\ last_risk.result.overall_score =
           60 * last_risk.threat + 25 * last_risk.location + 15 * last_risk.driver
    /\ WEIGHT_THREAT + WEIGHT_LOCATION + WEIGHT_DRIVER = 100

\* threat 72, location 15, driver history 10 under the default thresholds
ScenarioInputs ==
    /\ last_risk.threat = 72
    /\ last_risk.location = 15
    /\ last_risk.driver = 10
    /\ settings = DefaultSettings

\* C18 as stated: overall = 0.60*threat + 0.25*location + 0.15*driverHistory
\* with weights summing to 1.0, and threat 72, location 15, driver history
\* 10 give 47.55 (4755 hundredths) and level Medium.
C18_Original ==
    last_risk.called =>
        /\ WeightedSumHolds
        /\ ScenarioInputs =>
              /\ last_risk.result.overall_score = 4755
              /\ last_risk.result.risk_level = "Medium"

\* C18, amended: the same weighted sum, and threat 72, location 15, driver
\* history 10 give 48.45 (4845 hundredths) and level Medium.
C18_WeightedSum ==
    last_risk.called =>
        /\ WeightedSumHolds
        /\ ScenarioInputs =>
              /\ last_risk.result.overall_score = 4845
              /\ last_risk.result.risk_level = "Medium"

\* calculate_overall_risk was called with threat 72, location 15 and driver
\* history 10 under the default thresholds.
C18_Witness ==
    /\ last_risk.called
    /\ ScenarioInputs
    /\ last_risk.result.overall_score = 4845
    /\ last_risk.result.risk_level = "Medium"

\* C19 as stated: a configuration with low >= medium is rejected at
\* startup, so no score is ever classified under one.
C19_MisconfigurationRejected ==
    last_risk.called => settings.low < settings.medium

(***************************************************************************)
(* Normalization claims, under SpecAudio                                   *)
(***************************************************************************)
\* the file is decodable audio of 16000 Hz, 16 bits, one channel
MeetsCanonical(file) ==
    /\ file.decodable
    /\ file.frame_rate = 16000
    /\ file.sample_width = 2
    /\ file.channels = 1

\* normalization passed the file through: the check reports false, no
\* intermediate file is made, and what is sent is the file itself
PassThrough ==
    /\ ~last_asr.check.needs_conv
    /\ ~last_asr.result.wav_created
    /\ last_asr.result.sent.sent => last_asr.result.sent.audio = last_asr.file

\* C21 as stated: for every file that already meets the canonical
\* constraint needs_conversion reports false, transcribe_audio makes no
\* intermediate file and sends the original file.
C21_Original ==
    (last_asr.called /\ MeetsCanonical(last_asr.file)) => PassThrough

\* C21, amended: the same whenever needs_conversion can load the file.
C21_CanonicalPassThrough ==
    (/\ last_asr.called
     /\ MeetsCanonical(last_asr.file)
     /\ last_asr.env.check_loaded) => PassThrough

\* A canonical file was checked, found compatible and sent as it is.
C21_Witness ==
    /\ last_asr.called
    /\ MeetsCanonical(last_asr.file)
    /\ last_asr.env.check_loaded
    /\ last_asr.result.requests = 1
    /\ last_asr.result.sent.audio = last_asr.file
    /\ ~last_asr.result.wav_created

\* convert_to_wav was run on decodable audio that differs from the
\* canonical constraint and returned its output, which was then sent
ConvertedAndSent ==
    /\ last_asr.called
    /\ last_asr.file.decodable
    /\ ~MeetsCanonical(last_asr.file)
    /\ last_asr.check.needs_conv
    /\ last_asr.env.convert = "ok"
    /\ last_asr.result.sent.sent

\* C22: for decodable audio differing from the canonical constraint in any
\* combination of rate, depth and channels, the output of convert_to_wav is
\* 16000 Hz, 16-bit, mono, and needs_conversion on it reports false.
C22_ConversionGivesCanonical ==
    ConvertedAndSent =>
        LET out == last_asr.result.sent.audio
        IN  /\ out.frame_rate = 16000
            /\ out.sample_width * 8 = 16
            /\ out.channels = 1
            /\ ~needs_conversion(out, TRUE).needs_conv
            /\ needs_conversion(out, TRUE).reason = <<"already_compatible">>

\* A 44100 Hz, 8-bit, stereo file was converted and sent.
C22_Witness ==
    /\ ConvertedAndSent
    /\ last_asr.file.frame_rate = 44100
    /\ last_asr.file.sample_width = 1
    /\ last_asr.file.channels = 2
    /\ last_asr.result.wav_created

\* C23: one transcribe_audio call makes at most one request to the
\* recognition service, on every path.
C23_AtMostOneRequest ==
    last_asr.called => last_asr.result.requests \in {0, 1}

\* The connection failed and the call ended after its one request.
C23_Witness ==
    /\ last_asr.called
    /\ last_asr.env.http.kind = "connection_error"
    /\ last_asr.env.readable
    /\ last_asr.result.requests = 1
    /\ last_asr.result.text = <<>>

(***************************************************************************)
(* Sequencing claims, under Spec                                           *)
(***************************************************************************)
\* the states of the evidence-kit path and of the quick path, in order
KitPathOrder ==
    <<"Received", "FormatValidated", "AudioInspected", "Transcribed",
      "ThreatScored", "Classified", "Assembled", "Returned">>

QuickPathOrder ==
    <<"Received", "Transcribed", "ThreatScored", "Aggregated", "Returned">>

PositionIn(order, state) == CHOOSE i \in 1..Len(order) : order[i] = state

\* the states of order occur in visited in that order, none of them twice
AdvancesAlong(visited, order) ==
    LET named == { order[i] : i \in 1..Len(order) }
    IN  \A i, j \in 1..Len(visited) :
            (i < j /\ visited[i] \in named /\ visited[j] \in named) =>
                PositionIn(order, visited[i]) < PositionIn(order, visited[j])

\* C24: within one request the steps run in order and never go back:
\* transcription is complete before threat scoring starts, threat scoring
\* before aggregation or classification; the evidence-kit path advances
\* Received, FormatValidated, AudioInspected, Transcribed, ThreatScored,
\* Classified, Assembled, Returned, each visited at most once.
C24_StepsStrictlySequential ==
    req.pc # "Idle" =>
        /\ \A i, j \in 1..Len(req.visited) : i < j => req.visited[i] # req.visited[j]
        /\ req.endpoint = "summarize" => AdvancesAlong(req.visited, KitPathOrder)
        /\ req.endpoint = "assessment" => AdvancesAlong(req.visited, QuickPathOrder)
        /\ req.threat.called => (req.asr.called /\ Visited("Transcribed"))
        /\ req.analysis.called => (req.threat.called /\ Visited("ThreatScored"))
        /\ Visited("Aggregated") => (req.threat.called /\ Visited("ThreatScored"))

\* An evidence-kit request went through every state of the path.
C24_Witness ==
    /\ req.pc = "Returned"
    /\ req.endpoint = "summarize"
    /\ req.visited = <<"Received", "FormatValidated", "Saved", "AudioInspected",
                       "Transcribed", "ThreatScored", "Classified", "Assembled",
                       "Returned">>

\* C30 as stated: on the evidence-kit path, when transcription returns
\* nothing, the kit reports speech_detected false and quality "limited",
\* and the threat scorer is not called on a placeholder text.
C30_NoSpeechKit ==
    (/\ req.pc = "Returned"
     /\ req.endpoint = "summarize"
     /\ req.asr.text = <<>>) =>
        /\ req.threat.upstream_calls = 0
        /\ "audio_analysis" \in DOMAIN req.response.body =>
              /\ req.response.body.audio_analysis.obj.speech_detected = JBool(FALSE)
              /\ req.response.body.audio_analysis.obj.processing_quality = JStr("limited")

(***************************************************************************)
(* Audio summary claim, under SpecKit                                      *)
(***************************************************************************)
\* the number of characters from the first to the last character of a text
\* that is not whitespace
TrimmedSpan(text) ==
    LET marks == { i \in 1..Len(text) : text[i] # " " }
    IN  IF marks = {} THEN 0
        ELSE (CHOOSE hi \in marks : \A k \in marks : k <= hi)
             - (CHOOSE lo \in marks : \A k \in marks : lo <= k) + 1

\* C28: in every kit that carries an audio summary the quality is "good"
\* iff the transcript recorded in the kit is longer than 50 characters and
\* "limited" otherwise, and speech_detected is true iff that transcript,
\* trimmed, is longer than 10 characters.
C28_AudioSummaryDerived ==
    (last_kit.called /\ "audio_analysis" \in DOMAIN last_kit.result) =>
        LET summary == last_kit.result.audio_analysis.obj
            recorded == last_kit.result.evidence_details.obj.full_transcript.chars
        IN  /\ summary.processing_quality =
                   JStr(IF Len(recorded) > 50 THEN "good" ELSE "limited")
            /\ summary.speech_detected = JBool(TrimmedSpan(recorded) > 10)

\* A kit was built from a transcript of ten characters between two blanks:
\* no speech detected, quality limited.
C28_Witness ==
    /\ last_kit.called
    /\ "audio_analysis" \in DOMAIN last_kit.result
    /\ last_kit.transcript # Null
    /\ Len(last_kit.transcript) = 12
    /\ last_kit.result.audio_analysis.obj.speech_detected = JBool(FALSE)
    /\ last_kit.result.audio_analysis.obj.processing_quality = JStr("limited")

(***************************************************************************)
(* Monotonicity claim, under SpecRisk                                      *)
(***************************************************************************)
\* Low < Medium < High
LevelRank(level) ==
    CASE level = "Low" -> 1 [] level = "Medium" -> 2 [] level = "High" -> 3

\* the second result is not below the first, in score and in level
NotLower(first, second) ==
    /\ first.overall_score <= second.overall_score
    /\ LevelRank(first.risk_level) <= LevelRank(second.risk_level)

\* C29: raising any one of threat, location and driver history with the
\* other two fixed never lowers the overall score and never lowers the
\* level in the order Low < Medium < High.
C29_MonotonicInEachInput ==
    last_risk.called =>
        LET t == last_risk.threat
            l == last_risk.location
            d == last_risk.driver
        IN  /\ \A t2 \in ThreatInputs : t <= t2 =>
                   NotLower(last_risk.result,
                            calculate_overall_risk(t2, l, d, settings))
            /\ \A l2 \in LocationInputs : l <= l2 =>
                   NotLower(last_risk.result,
                            calculate_overall_risk(t, l2, d, settings))
            /\ \A d2 \in DriverInputs : d <= d2 =>
                   NotLower(last_risk.result,
                            calculate_overall_risk(t, l, d2, settings))

\* A call answered Low for inputs whose threat, raised by one, gives Medium.
C29_Witness ==
    /\ last_risk.called
    /\ last_risk.threat < SCORE_MAX
    /\ last_risk.result.risk_level = "Low"
    /\ calculate_overall_risk(last_risk.threat + 1, last_risk.location,
                              last_risk.driver, settings).risk_level = "Medium"

(***************************************************************************)
(* Persistence claims, under SpecLocation and SpecDriver                   *)
(***************************************************************************)
\* the sessions whose request is over
Over(s) == sessions[s].pc \in {"committed", "rolled_back"}

\* the requests so far were all update_location_risk calls for the point,
\* and all of them are over
OnlyUpdatesAt(point) ==
    /\ \E s \in SessionIds : sessions[s].pc # "idle"
    /\ \A s \in SessionIds :
          sessions[s].pc # "idle" =>
              /\ sessions[s].op = "update_location_risk"
              /\ sessions[s].point = point
              /\ Over(s)

\* C25 as stated: after any interleaving of n update_location_risk calls
\* for one point there is exactly one record for the point and its
\* incident_count is n.
C25_OneRecordCountingEveryCall ==
    \A point \in Points :
        OnlyUpdatesAt(point) =>
            LET n == Cardinality({ s \in SessionIds : sessions[s].pc # "idle" })
                records == { row \in db.location_risks :
                               /\ row.latitude = point.lat
                               /\ row.longitude = point.lng }
            IN  /\ Cardinality(records) = 1
                /\ \A row \in records : row.incident_count = n

\* squared distance, in thousandths of a degree, of a stored row from a point
SquaredDistance(row, point) ==
    (row.latitude - point.lat) * (row.latitude - point.lat)
        + (row.longitude - point.lng) * (row.longitude - point.lng)

\* C26 as stated: get_location_risk_index returns the risk index of a stored
\* location within the lookup radius whenever there is one, the nearest when
\* there are several, and 0.0 only when there is none.
C26_NearestStoredLocation ==
    \A s \in SessionIds :
        (sessions[s].op = "get_location_risk_index" /\ sessions[s].pc # "idle") =>
            LET stored == sessions[s].rows
                point == sessions[s].point
            IN  IF stored = {} THEN sessions[s].result = 0
                ELSE \E row \in stored :
                        /\ \A other \in stored :
                              SquaredDistance(row, point) <= SquaredDistance(other, point)
                        /\ sessions[s].result = row.risk_index

\* the committed records of a driver
DriverRecords(driver_id) == { row \in db.drivers : row.driver_id = driver_id }

\* C27: get_driver_risk_history returns the stored score of an existing
\* driver and 0.0 for an absent one, whom it registers with score 0.0: there
\* is never more than one record for a driver_id, and once a lookup that
\* found the driver absent is over, there is exactly one.
C27_DriverRegisteredOnce ==
    /\ \A driver_id \in DriverIds : Cardinality(DriverRecords(driver_id)) <= 1
    /\ \A s \in SessionIds :
          (sessions[s].op = "get_driver_risk_history"
               /\ sessions[s].pc \in {"returned", "committed", "rolled_back"}) =>
              /\ sessions[s].drivers_found = {} => sessions[s].result = 0
              /\ \A row \in sessions[s].drivers_found :
                    sessions[s].result = row.risk_history_score
              /\ (sessions[s].drivers_found = {} /\ Over(s)) =>
                    Cardinality(DriverRecords(sessions[s].driver_id)) = 1
    /\ \A s \in SessionIds :
          \A row \in sessions[s].flushed : row.risk_history_score = 0

\* Two requests looked the same absent driver up at the same time: one
\* registered the driver, the other's insert was refused, both returned 0.0
\* and one record exists.
C27_Witness ==
    \E s, o \in SessionIds :
        /\ s # o
        /\ sessions[s].op = "get_driver_risk_history"
        /\ sessions[o].op = "get_driver_risk_history"
        /\ sessions[s].driver_id = sessions[o].driver_id
        /\ sessions[s].pc = "committed"
        /\ sessions[s].flushed # {}
        /\ sessions[o].pc = "rolled_back"
        /\ sessions[o].flush_failed
        /\ sessions[s].result = 0
        /\ sessions[o].result = 0
        /\ Cardinality(DriverRecords(sessions[s].driver_id)) = 1


=============================================================================
